---------------------------- MODULE Spec2Model ----------------------------
(***************************************************************************)
(* The Pipeline graph of codeflare/pipelines/Datamodel.py: nodes, the two  *)
(* adjacency dictionaries, the memoised longest-path levelling and the     *)
(* predecessor / successor / edge queries.                                 *)
(*                                                                         *)
(* A Python dict is a sequence of [k, v] entries in insertion order, a     *)
(* Python list is a sequence, an attribute that may hold None is a record  *)
(* [some, val].  Every Pipeline method is an operator from the object's    *)
(* fields (self) to [self, err, val]: the fields after the call, the       *)
(* exception that left it ("none" when it returned) and the value          *)
(* returned.                                                               *)
(***************************************************************************)
EXTENDS Integers, Sequences, FiniteSets, TLC

\* Largest number of add_edge calls made on one pipeline.
MaxEdges == 3

VARIABLES
    pre_graph,      \* Pipeline.__pre_graph__  : dict Node -> list of Node
    post_graph,     \* Pipeline.__post_graph__ : dict Node -> list of Node
    node_levels,    \* Pipeline.__node_levels__: None or dict Node -> int
    level_nodes,    \* Pipeline.__level_nodes__: None or list of list of Node
    last,           \* the last call made on the pipeline and what it returned
    exPlan,         \* executor: the buckets it obtained from get_nodes_by_level
    exLevel,        \* executor: index (from 0) of the level being run
    exStarted,      \* executor: nodes whose execution has begun
    exDone          \* executor: nodes whose execution has completed

vars == <<pre_graph, post_graph, node_levels, level_nodes, last,
          exPlan, exLevel, exStarted, exDone>>

pipeVars == <<pre_graph, post_graph, node_levels, level_nodes>>

execVars == <<exPlan, exLevel, exStarted, exDone>>

---------------------------------------------------------------------------
\* Python values

\* None, where a Node is expected (Edge endpoints, absent arguments).
NoneNode == [cls |-> "NoneType", id |-> 0, name |-> "None"]

\* An attribute holding None.
None == [some |-> FALSE, val |-> <<>>]

\* An attribute holding the object v.
Some(v) == [some |-> TRUE, val |-> v]

\* Truth value of an attribute used as a condition (if x:): None, an empty
\* dict and an empty list are false.
Truthy(x) == x.some /\ x.val # <<>>

\* Mutant of Max: max_level = level, the maximum forgotten.
TakeLevel(a, b) == a

\* max(a, b)
Max(a, b) == IF a >= b THEN a ELSE b

---------------------------------------------------------------------------
\* Node and its variants

\* Node.__init__: the name, and the identity drawn by uuid.uuid4() (uid).
Node(cls, node_name, uid) == [cls |-> cls, id |-> uid, name |-> node_name]

\* EstimatorNode.__init__
EstimatorNode(node_name, uid) == Node("EstimatorNode", node_name, uid)

\* AndNode.__init__
AndNode(node_name, uid) == Node("AndNode", node_name, uid)

\* Node.__hash__
NodeHash(n) == n.id

\* Node.__eq__
NodeEq(a, b) == a.cls = b.cls /\ a.id = b.id /\ a.name = b.name

\* The Node objects the client has constructed: uuid4 never repeats, names
\* and variants may.
Nodes == {EstimatorNode("a", 1), AndNode("b", 2), EstimatorNode("a", 3)}

\* Mutant of EstimatorNode_clone: the copy keeps the identity of the
\* original.
EstimatorNode_clone_same_id(self_node, uid) == self_node

\* EstimatorNode.clone: a new EstimatorNode of the same name around a clone
\* of the estimator; the constructor draws a new identity (uid).
EstimatorNode_clone(self_node, uid) == EstimatorNode(self_node.name, uid)

\* AndNode.clone: a new AndNode of the same name around the same function;
\* the constructor draws a new identity (uid).
AndNode_clone(self_node, uid) == AndNode(self_node.name, uid)

\* node.clone(), dispatched on the variant.
clone(self_node, uid) ==
    IF self_node.cls = "EstimatorNode" THEN EstimatorNode_clone(self_node, uid)
    ELSE AndNode_clone(self_node, uid)

\* The objects a client may hand to a node constructor as its capability:
\* an sklearn estimator (fit / transform), an AndTransform (transform of a
\* list of Xy), and an object with neither.
Capabilities == {"estimator", "and_transform", "object"}

\* The capability the variant is documented to need.
Satisfies(capability, cls) ==
    \/ cls = "EstimatorNode" /\ capability = "estimator"
    \/ cls = "AndNode" /\ capability = "and_transform"

\* EstimatorNode(node_name, estimator): the object built, or the exception.
\* The constructor stores the estimator and tests nothing.
NewEstimatorNode(node_name, estimator, uid) ==
    [err |-> "none",
     val |-> [node |-> EstimatorNode(node_name, uid), capability |-> estimator]]

\* AndNode(node_name, and_func): the object built, or the exception.  The
\* constructor stores the function and tests nothing.
NewAndNode(node_name, and_func, uid) ==
    [err |-> "none",
     val |-> [node |-> AndNode(node_name, uid), capability |-> and_func]]

\* Edge.__init__
Edge(from_node, to_node) == [from_node |-> from_node, to_node |-> to_node]

---------------------------------------------------------------------------
\* dict, keyed by Node (lookup by __hash__ then __eq__)

DictIndex(d, k) ==
    {i \in 1..Len(d) : NodeHash(d[i].k) = NodeHash(k) /\ NodeEq(d[i].k, k)}

\* k in d
DictHas(d, k) == DictIndex(d, k) # {}

\* d[k], for a key that is present
DictGet(d, k) == d[CHOOSE i \in DictIndex(d, k) : TRUE].v

\* d[k] = v: a present key keeps its place, a new key goes last
DictPut(d, k, v) ==
    IF DictHas(d, k)
    THEN [i \in 1..Len(d) |-> IF i \in DictIndex(d, k)
                              THEN [k |-> d[i].k, v |-> v] ELSE d[i]]
    ELSE Append(d, [k |-> k, v |-> v])

\* list(d.keys())
DictKeys(d) == [i \in 1..Len(d) |-> d[i].k]

KeySet(d) == {d[i].k : i \in 1..Len(d)}

---------------------------------------------------------------------------
\* Pipeline

\* What a method hands back: the fields after it, the exception, the value.
Return(self, val) == [self |-> self, err |-> "none", val |-> val]

Raise(self, err) == [self |-> self, err |-> err, val |-> <<>>]

\* Pipeline.__init__
PipelineInit ==
    [pre_graph |-> <<>>, post_graph |-> <<>>,
     node_levels |-> None, level_nodes |-> None]

\* Mutant of add_node: the level caches are left as they are.
add_node_keep_caches(self, node) ==
    IF ~DictHas(self.pre_graph, node)
    THEN [self EXCEPT !.pre_graph = DictPut(self.pre_graph, node, <<>>),
                      !.post_graph = DictPut(self.post_graph, node, <<>>)]
    ELSE self

\* Mutant of add_node: the membership test is missing, a node that is
\* already a key gets fresh empty lists.
add_node_overwrite(self, node) ==
    [self EXCEPT !.node_levels = None, !.level_nodes = None,
                 !.pre_graph = DictPut(self.pre_graph, node, <<>>),
                 !.post_graph = DictPut(self.post_graph, node, <<>>)]

\* Mutant of add_node: the successor list is not created.
add_node_pre_only(self, node) ==
    LET s1 == [self EXCEPT !.node_levels = None, !.level_nodes = None]
    IN  IF ~DictHas(s1.pre_graph, node)
        THEN [s1 EXCEPT !.pre_graph = DictPut(s1.pre_graph, node, <<>>)]
        ELSE s1

\* Pipeline.add_node
add_node(self, node) ==
    LET s1 == [self EXCEPT !.node_levels = None, !.level_nodes = None]
    IN  IF ~DictHas(s1.pre_graph, node)
        THEN [s1 EXCEPT !.pre_graph = DictPut(s1.pre_graph, node, <<>>),
                        !.post_graph = DictPut(s1.post_graph, node, <<>>)]
        ELSE s1

\* Mutant of add_edge: an edge that is already there is not appended again.
add_edge_dedup(self, from_node, to_node) ==
    LET s1 == add_node(self, from_node)
        s2 == add_node(s1, to_node)
        has == \E i \in 1..Len(DictGet(s2.pre_graph, to_node)) :
                   DictGet(s2.pre_graph, to_node)[i] = from_node
        s3 == [s2 EXCEPT !.pre_graph =
                   DictPut(s2.pre_graph, to_node,
                           Append(DictGet(s2.pre_graph, to_node), from_node))]
    IN  IF has THEN s2
        ELSE [s3 EXCEPT !.post_graph =
                  DictPut(s3.post_graph, from_node,
                          Append(DictGet(s3.post_graph, from_node), to_node))]

\* Mutant of add_edge: both appends go to the predecessor dict's side, the
\* successor list is appended under the wrong key.
add_edge_wrong_key(self, from_node, to_node) ==
    LET s1 == add_node(self, from_node)
        s2 == add_node(s1, to_node)
        s3 == [s2 EXCEPT !.pre_graph =
                   DictPut(s2.pre_graph, to_node,
                           Append(DictGet(s2.pre_graph, to_node), from_node))]
    IN  [s3 EXCEPT !.post_graph =
             DictPut(s3.post_graph, to_node,
                     Append(DictGet(s3.post_graph, to_node), from_node))]

\* Pipeline.add_edge
add_edge(self, from_node, to_node) ==
    LET s1 == add_node(self, from_node)
        s2 == add_node(s1, to_node)
        s3 == [s2 EXCEPT !.pre_graph =
                   DictPut(s2.pre_graph, to_node,
                           Append(DictGet(s2.pre_graph, to_node), from_node))]
    IN  [s3 EXCEPT !.post_graph =
             DictPut(s3.post_graph, from_node,
                     Append(DictGet(s3.post_graph, from_node), to_node))]

\* Mutant of get_preimage: a node that is no key gets an empty list
\* (self.__pre_graph__.get(node, [])).
get_preimage_default(self, node) ==
    IF DictHas(self.pre_graph, node)
    THEN Return(self, DictGet(self.pre_graph, node))
    ELSE Return(self, <<>>)

\* Pipeline.get_preimage
get_preimage(self, node) ==
    IF DictHas(self.pre_graph, node)
    THEN Return(self, DictGet(self.pre_graph, node))
    ELSE Raise(self, "KeyError")

\* Pipeline.get_postimage
get_postimage(self, node) ==
    IF DictHas(self.post_graph, node)
    THEN Return(self, DictGet(self.post_graph, node))
    ELSE Raise(self, "KeyError")

\* What compute_node_level hands back: the memo dict it was given, as it
\* left it; the exception; the level returned.
LevelReturn(result, val) == [result |-> result, err |-> "none", val |-> val]

LevelRaise(result, err) == [result |-> result, err |-> err, val |-> 0]

\* Pipeline.compute_node_level, and its loop over node_preimage from the
\* i-th entry on.  active is the set of nodes whose call is still on the
\* Python stack: a call on a node that is active and not yet in result
\* repeats the call that is waiting for it, so the recursion never returns;
\* that outcome is err = "diverges".
RECURSIVE compute_node_level(_, _, _, _), compute_node_level_loop(_, _, _, _, _, _)

\* Mutant of compute_node_level: result[node] = max_level, the + 1 forgotten.
compute_node_level_flat(self, node, result, active) ==
    IF DictHas(result, node) THEN LevelReturn(result, DictGet(result, node))
    ELSE IF node \in active THEN LevelRaise(result, "diverges")
    ELSE LET pre == get_preimage(self, node)
         IN  IF pre.err # "none" THEN LevelRaise(result, pre.err)
             ELSE IF pre.val = <<>> THEN LevelReturn(DictPut(result, node, 0), 0)
             ELSE LET loop == compute_node_level_loop(self, pre.val, 1, result, 0,
                                                      active \cup {node})
                  IN  IF loop.err # "none" THEN loop
                      ELSE LevelReturn(DictPut(loop.result, node, loop.val),
                                       loop.val)

\* Mutant of compute_node_level_loop: the loop leaves after the first
\* predecessor.
compute_node_level_loop_first(self, node_preimage, i, result, max_level, active) ==
    IF i > 1 THEN LevelReturn(result, max_level)
    ELSE LET r == compute_node_level(self, node_preimage[i], result, active)
         IN  IF r.err # "none" THEN r
             ELSE compute_node_level_loop(self, node_preimage, i + 1, r.result,
                                          Max(r.val, max_level), active)

\* Mutant of compute_node_level: a node met again while its own level is
\* being computed counts as level 0, so the recursion ends on a cycle.
compute_node_level_premark(self, node, result, active) ==
    IF DictHas(result, node) THEN LevelReturn(result, DictGet(result, node))
    ELSE IF node \in active THEN LevelReturn(result, 0)
    ELSE LET pre == get_preimage(self, node)
         IN  IF pre.err # "none" THEN LevelRaise(result, pre.err)
             ELSE IF pre.val = <<>> THEN LevelReturn(DictPut(result, node, 0), 0)
             ELSE LET loop == compute_node_level_loop(self, pre.val, 1, result, 0,
                                                      active \cup {node})
                  IN  IF loop.err # "none" THEN loop
                      ELSE LevelReturn(DictPut(loop.result, node, loop.val + 1),
                                       loop.val + 1)

compute_node_level(self, node, result, active) ==
    IF DictHas(result, node) THEN LevelReturn(result, DictGet(result, node))
    ELSE IF node \in active THEN LevelRaise(result, "diverges")
    ELSE LET pre == get_preimage(self, node)
         IN  IF pre.err # "none" THEN LevelRaise(result, pre.err)
             ELSE IF pre.val = <<>> THEN LevelReturn(DictPut(result, node, 0), 0)
             ELSE LET loop == compute_node_level_loop(self, pre.val, 1, result, 0,
                                                      active \cup {node})
                  IN  IF loop.err # "none" THEN loop
                      ELSE LevelReturn(DictPut(loop.result, node, loop.val + 1),
                                       loop.val + 1)

compute_node_level_loop(self, node_preimage, i, result, max_level, active) ==
    IF i > Len(node_preimage) THEN LevelReturn(result, max_level)
    ELSE LET r == compute_node_level(self, node_preimage[i], result, active)
         IN  IF r.err # "none" THEN r
             ELSE compute_node_level_loop(self, node_preimage, i + 1, r.result,
                                          Max(r.val, max_level), active)

\* The loop of compute_node_levels over the keys of __pre_graph__, from the
\* i-th key on.
RECURSIVE compute_node_levels_loop(_, _, _, _)
compute_node_levels_loop(self, keys, i, result) ==
    IF i > Len(keys) THEN LevelReturn(result, 0)
    ELSE LET r == compute_node_level(self, keys[i], result, {})
         IN  IF r.err # "none" THEN r
             ELSE compute_node_levels_loop(self, keys, i + 1,
                                           DictPut(r.result, keys[i], r.val))

\* Mutant of compute_node_levels: a filled cache answers with the other
\* cache attribute (return self.__level_nodes__).
compute_node_levels_other_attr(self) ==
    IF Truthy(self.node_levels) THEN Return(self, self.level_nodes.val)
    ELSE LET r == compute_node_levels_loop(self, DictKeys(self.pre_graph), 1, <<>>)
         IN  IF r.err # "none" THEN Raise(self, r.err)
             ELSE Return([self EXCEPT !.node_levels = Some(r.result)], r.result)

\* Pipeline.compute_node_levels
compute_node_levels(self) ==
    IF Truthy(self.node_levels) THEN Return(self, self.node_levels.val)
    ELSE LET r == compute_node_levels_loop(self, DictKeys(self.pre_graph), 1, <<>>)
         IN  IF r.err # "none" THEN Raise(self, r.err)
             ELSE Return([self EXCEPT !.node_levels = Some(r.result)], r.result)

\* max over levels.items(), starting from 0
RECURSIVE MaxLevelLoop(_, _, _)

\* Mutant of MaxLevelLoop: the maximum is counted one too high.
MaxLevelLoopOver(levels, i, max_level) ==
    IF i > Len(levels) THEN max_level + 1
    ELSE MaxLevelLoop(levels, i + 1, Max(levels[i].v, max_level))

MaxLevelLoop(levels, i, max_level) ==
    IF i > Len(levels) THEN max_level
    ELSE MaxLevelLoop(levels, i + 1, Max(levels[i].v, max_level))

\* Pipeline.compute_max_level
compute_max_level(self) ==
    LET c == compute_node_levels(self)
    IN  IF c.err # "none" THEN c
        ELSE Return(c.self, MaxLevelLoop(c.val, 1, 0))

\* The second loop of get_nodes_by_level: result[node_level].append(node)
\* for the items of levels from the i-th on (Python indexes from 0).
RECURSIVE BucketLoop(_, _, _)

\* Mutant of BucketLoop: each node is put at the front of its bucket.
BucketLoopPrepend(levels, i, result) ==
    IF i > Len(levels) THEN result
    ELSE BucketLoop(levels, i + 1,
                    [result EXCEPT ![levels[i].v + 1] =
                                       <<levels[i].k>> \o @])

\* Mutant of BucketLoop: the loop stops one item early.
BucketLoopShort(levels, i, result) ==
    IF i >= Len(levels) THEN result
    ELSE BucketLoop(levels, i + 1,
                    [result EXCEPT ![levels[i].v + 1] =
                                       Append(@, levels[i].k)])

BucketLoop(levels, i, result) ==
    IF i > Len(levels) THEN result
    ELSE BucketLoop(levels, i + 1,
                    [result EXCEPT ![levels[i].v + 1] =
                                       Append(@, levels[i].k)])

\* Pipeline.get_nodes_by_level
get_nodes_by_level(self) ==
    IF Truthy(self.level_nodes) THEN Return(self, self.level_nodes.val)
    ELSE LET c == compute_node_levels(self)
         IN  IF c.err # "none" THEN c
             ELSE LET m == compute_max_level(c.self)
                      result_size == m.val + 1
                      empty == [i \in 1..result_size |-> <<>>]
                      result == BucketLoop(c.val, 1, empty)
                  IN  Return([m.self EXCEPT !.level_nodes = Some(result)], result)

\* Pipeline.get_post_nodes
get_post_nodes(self, node) ==
    IF DictHas(self.post_graph, node)
    THEN Return(self, DictGet(self.post_graph, node))
    ELSE Raise(self, "KeyError")

\* Pipeline.get_pre_nodes
get_pre_nodes(self, node) ==
    IF DictHas(self.pre_graph, node)
    THEN Return(self, DictGet(self.pre_graph, node))
    ELSE Raise(self, "KeyError")

\* Mutant of get_pre_edges: the sentinel edge is appended whatever the list.
get_pre_edges_always_sentinel(self, node) ==
    IF ~DictHas(self.pre_graph, node) THEN Raise(self, "KeyError")
    ELSE LET pre_nodes == DictGet(self.pre_graph, node)
         IN  Return(self, <<Edge(NoneNode, node)>> \o
                          [i \in 1..Len(pre_nodes) |-> Edge(pre_nodes[i], node)])

\* Pipeline.get_pre_edges
get_pre_edges(self, node) ==
    IF ~DictHas(self.pre_graph, node) THEN Raise(self, "KeyError")
    ELSE LET pre_nodes == DictGet(self.pre_graph, node)
             sentinel == IF pre_nodes = <<>> THEN <<Edge(NoneNode, node)>> ELSE <<>>
         IN  Return(self, sentinel \o
                          [i \in 1..Len(pre_nodes) |-> Edge(pre_nodes[i], node)])

\* Pipeline.get_post_edges
get_post_edges(self, node) ==
    IF ~DictHas(self.post_graph, node) THEN Raise(self, "KeyError")
    ELSE LET post_nodes == DictGet(self.post_graph, node)
             sentinel == IF post_nodes = <<>> THEN <<Edge(node, NoneNode)>> ELSE <<>>
         IN  Return(self, sentinel \o
                          [i \in 1..Len(post_nodes) |-> Edge(node, post_nodes[i])])

\* Mutant of is_terminal: the raw successor list is inspected, not the
\* edges with their sentinel.
is_terminal_raw(self, node) ==
    IF get_postimage(self, node).err # "none" THEN get_postimage(self, node)
    ELSE Return(self, Len(get_postimage(self, node).val) = 0)

\* Pipeline.is_terminal
is_terminal(self, node) ==
    LET node_post_edges == get_post_edges(self, node)
    IN  IF node_post_edges.err # "none" THEN node_post_edges
        ELSE Return(self, Len(node_post_edges.val) = 0)

---------------------------------------------------------------------------
\* The state machine: one Pipeline object and the calls of its client

\* The fields of the Pipeline object.
Self ==
    [pre_graph |-> pre_graph, post_graph |-> post_graph,
     node_levels |-> node_levels, level_nodes |-> level_nodes]

\* The fields after a call.
Commit(s) ==
    /\ pre_graph' = s.pre_graph
    /\ post_graph' = s.post_graph
    /\ node_levels' = s.node_levels
    /\ level_nodes' = s.level_nodes

LevelQueries == {"compute_node_levels", "compute_max_level", "get_nodes_by_level"}

\* What came before a call, for the record kept in last: a mutation that
\* discarded a filled level cache is "dropped"; a level query that repeats
\* the call before it is "again"; a level query right after a "dropped"
\* mutation is "refill".
Hist(op, args) ==
    IF op \in {"add_node", "add_edge"}
    THEN IF Truthy(node_levels) \/ Truthy(level_nodes) THEN "dropped" ELSE "none"
    ELSE IF op \notin LevelQueries THEN "none"
    ELSE IF last.op = op THEN "again"
    ELSE IF last.hist = "dropped" THEN "refill"
    ELSE "none"

\* A call of method op with arguments args that handed back r.
Call(op, args, r) ==
    /\ Commit(r.self)
    /\ last' = [op |-> op, args |-> args, err |-> r.err, val |-> r.val,
                hist |-> Hist(op, args)]

RECURSIVE SumLen(_, _)
SumLen(d, i) == IF i > Len(d) THEN 0 ELSE Len(d[i].v) + SumLen(d, i + 1)

\* Number of add_edge calls made so far.
NumEdges == SumLen(pre_graph, 1)

Init ==
    /\ pre_graph = PipelineInit.pre_graph
    /\ post_graph = PipelineInit.post_graph
    /\ node_levels = PipelineInit.node_levels
    /\ level_nodes = PipelineInit.level_nodes
    /\ last = [op |-> "__init__", args |-> <<>>, err |-> "none", val |-> <<>>,
               hist |-> "none"]
    /\ exPlan = None
    /\ exLevel = 0
    /\ exStarted = {}
    /\ exDone = {}

AddNode(n) ==
    /\ Call("add_node", <<n>>, Return(add_node(Self, n), <<>>))
    /\ UNCHANGED execVars

AddEdge(a, b) ==
    /\ NumEdges < MaxEdges
    /\ Call("add_edge", <<a, b>>, Return(add_edge(Self, a, b), <<>>))
    /\ UNCHANGED execVars

ComputeNodeLevels ==
    /\ Call("compute_node_levels", <<>>, compute_node_levels(Self))
    /\ UNCHANGED execVars

ComputeMaxLevel ==
    /\ Call("compute_max_level", <<>>, compute_max_level(Self))
    /\ UNCHANGED execVars

GetNodesByLevel ==
    /\ Call("get_nodes_by_level", <<>>, get_nodes_by_level(Self))
    /\ UNCHANGED execVars

GetPreEdges(n) ==
    /\ Call("get_pre_edges", <<n>>, get_pre_edges(Self, n))
    /\ UNCHANGED execVars

GetPostEdges(n) ==
    /\ Call("get_post_edges", <<n>>, get_post_edges(Self, n))
    /\ UNCHANGED execVars

IsTerminal(n) ==
    /\ Call("is_terminal", <<n>>, is_terminal(Self, n))
    /\ UNCHANGED execVars

Next ==
    \/ \E n \in Nodes : AddNode(n)
    \/ \E a, b \in Nodes : AddEdge(a, b)
    \/ ComputeNodeLevels
    \/ ComputeMaxLevel
    \/ GetNodesByLevel
    \/ \E n \in Nodes : GetPreEdges(n)
    \/ \E n \in Nodes : GetPostEdges(n)
    \/ \E n \in Nodes : IsTerminal(n)

Spec == Init /\ [][Next]_vars

---------------------------------------------------------------------------
\* The external executor: it takes the buckets of get_nodes_by_level once
\* construction is over and runs them level by level; the nodes of one
\* level run in any interleaving.

\* The executor obtains its plan; construction is over.
ExecBegin ==
    /\ ~exPlan.some
    /\ Call("get_nodes_by_level", <<>>, get_nodes_by_level(Self))
    /\ last'.err = "none"
    /\ exPlan' = Some(last'.val)
    /\ exLevel' = 0
    /\ exStarted' = {}
    /\ exDone' = {}

\* The nodes of the level being run.
ExecBucket ==
    IF exPlan.some /\ exLevel < Len(exPlan.val)
    THEN {exPlan.val[exLevel + 1][j] : j \in 1..Len(exPlan.val[exLevel + 1])}
    ELSE {}

\* A worker begins node n of the current level.
ExecStart(n) ==
    /\ n \in ExecBucket
    /\ n \notin exStarted
    /\ exStarted' = exStarted \cup {n}
    /\ UNCHANGED <<pipeVars, last, exPlan, exLevel, exDone>>

\* Node n completes and its output reference is produced.
ExecFinish(n) ==
    /\ n \in exStarted
    /\ n \notin exDone
    /\ exDone' = exDone \cup {n}
    /\ UNCHANGED <<pipeVars, last, exPlan, exLevel, exStarted>>

\* Every node of the current level has completed: go to the next level.
ExecNextLevel ==
    /\ exPlan.some
    /\ exLevel + 1 < Len(exPlan.val)
    /\ ExecBucket \subseteq exDone
    /\ exLevel' = exLevel + 1
    /\ UNCHANGED <<pipeVars, last, exPlan, exStarted, exDone>>

NextExec ==
    \/ \E n \in Nodes : ~exPlan.some /\ AddNode(n)
    \/ \E a, b \in Nodes : ~exPlan.some /\ AddEdge(a, b)
    \/ ExecBegin
    \/ \E n \in Nodes : ExecStart(n)
    \/ \E n \in Nodes : ExecFinish(n)
    \/ ExecNextLevel

SpecExec == Init /\ [][NextExec]_vars

---------------------------------------------------------------------------
\* The predecessor / successor queries, on added and on never-added nodes

GetPreimage(n) ==
    /\ Call("get_preimage", <<n>>, get_preimage(Self, n))
    /\ UNCHANGED execVars

GetPostimage(n) ==
    /\ Call("get_postimage", <<n>>, get_postimage(Self, n))
    /\ UNCHANGED execVars

GetPreNodes(n) ==
    /\ Call("get_pre_nodes", <<n>>, get_pre_nodes(Self, n))
    /\ UNCHANGED execVars

GetPostNodes(n) ==
    /\ Call("get_post_nodes", <<n>>, get_post_nodes(Self, n))
    /\ UNCHANGED execVars

NodeQueries ==
    {"get_preimage", "get_postimage", "get_pre_nodes", "get_post_nodes",
     "get_pre_edges", "get_post_edges"}

NextQueries ==
    \/ \E n \in Nodes : AddNode(n)
    \/ \E a, b \in Nodes : AddEdge(a, b)
    \/ \E n \in Nodes : GetPreimage(n)
    \/ \E n \in Nodes : GetPostimage(n)
    \/ \E n \in Nodes : GetPreNodes(n)
    \/ \E n \in Nodes : GetPostNodes(n)
    \/ \E n \in Nodes : GetPreEdges(n)
    \/ \E n \in Nodes : GetPostEdges(n)

SpecQueries == Init /\ [][NextQueries]_vars

---------------------------------------------------------------------------
\* Node construction and cloning by the client

\* Largest number of nodes the client makes by clone().
MaxClones == 1

\* The identities in use: of the client's nodes and of the keys.
UsedIds == {n.id : n \in Nodes \cup KeySet(pre_graph)}

\* The value uuid.uuid4() draws next: one that no node has (which one does
\* not matter, nodes are only compared).
FreshId == CHOOSE i \in 1..(Cardinality(UsedIds) + 1) : i \notin UsedIds

\* The client clones a node of the pipeline and adds the clone.
AddClone(n) ==
    /\ DictHas(pre_graph, n)
    /\ Cardinality(KeySet(pre_graph) \ Nodes) < MaxClones
    /\ Call("add_clone", <<n, clone(n, FreshId)>>,
            Return(add_node(Self, clone(n, FreshId)), <<>>))
    /\ UNCHANGED execVars

\* The client constructs an EstimatorNode around capability c.
ConstructEstimatorNode(c) ==
    /\ last' = [op |-> "EstimatorNode", args |-> <<"a", c>>,
                err |-> NewEstimatorNode("a", c, FreshId).err,
                val |-> NewEstimatorNode("a", c, FreshId).val,
                hist |-> "none"]
    /\ UNCHANGED <<pipeVars, execVars>>

\* The client constructs an AndNode around capability c.
ConstructAndNode(c) ==
    /\ last' = [op |-> "AndNode", args |-> <<"b", c>>,
                err |-> NewAndNode("b", c, FreshId).err,
                val |-> NewAndNode("b", c, FreshId).val,
                hist |-> "none"]
    /\ UNCHANGED <<pipeVars, execVars>>

NextNodes ==
    \/ \E n \in Nodes : AddNode(n)
    \/ \E n \in Nodes : AddClone(n)
    \/ \E c \in Capabilities : ConstructEstimatorNode(c)
    \/ \E c \in Capabilities : ConstructAndNode(c)

SpecNodes == Init /\ [][NextNodes]_vars

---------------------------------------------------------------------------
\* The pipeline shared by the executor's workers

\* The attributes of the pipeline that the call op assigns when it runs on
\* self: compute_node_levels assigns __node_levels__ when the cache is not
\* truthy and the computation returns; compute_max_level does so through
\* compute_node_levels; get_nodes_by_level assigns __level_nodes__ when
\* that cache is not truthy, after its calls of compute_node_levels and
\* compute_max_level; the predecessor / successor queries assign nothing.
CacheWrites(op, self) ==
    IF op \in {"compute_node_levels", "compute_max_level"}
    THEN IF Truthy(self.node_levels) \/ compute_node_levels(self).err # "none"
         THEN {}
         ELSE {"__node_levels__"}
    ELSE IF op = "get_nodes_by_level"
    THEN IF Truthy(self.level_nodes) \/ get_nodes_by_level(self).err # "none"
         THEN {}
         ELSE IF Truthy(self.node_levels) THEN {"__level_nodes__"}
         ELSE {"__node_levels__", "__level_nodes__"}
    ELSE {}

\* Construction is over and get_nodes_by_level has just returned the
\* buckets: the pipeline is handed to the workers.
ShareWithWorkers ==
    /\ ~exPlan.some
    /\ last.op = "get_nodes_by_level"
    /\ last.err = "none"
    /\ exPlan' = Some(last.val)
    /\ UNCHANGED <<pipeVars, last, exLevel, exStarted, exDone>>

\* Construction, then get_nodes_by_level and the hand-over, then the
\* workers' queries in any interleaving.
NextShared ==
    \/ \E n \in Nodes : ~exPlan.some /\ AddNode(n)
    \/ \E a, b \in Nodes : ~exPlan.some /\ AddEdge(a, b)
    \/ GetNodesByLevel
    \/ ShareWithWorkers
    \/ exPlan.some /\ ComputeNodeLevels
    \/ exPlan.some /\ ComputeMaxLevel
    \/ \E n \in Nodes : exPlan.some /\ GetPreNodes(n)
    \/ \E n \in Nodes : exPlan.some /\ GetPostNodes(n)
    \/ \E n \in Nodes : exPlan.some /\ GetPreEdges(n)
    \/ \E n \in Nodes : exPlan.some /\ GetPostEdges(n)
    \/ \E n \in Nodes : exPlan.some /\ IsTerminal(n)

SpecShared == Init /\ [][NextShared]_vars

---------------------------------------------------------------------------
\* The graph as the properties read it

\* The nodes added to the pipeline.
Keys == KeySet(pre_graph)

Elems(seq) == {seq[i] : i \in 1..Len(seq)}

\* The direct predecessors of an added node.
Preds(n) == Elems(DictGet(pre_graph, n))

\* The direct successors of an added node.
Succs(n) == Elems(DictGet(post_graph, n))

\* The nodes from which S is reached in at most k more edges.
RECURSIVE Backward(_, _)
Backward(S, k) ==
    IF k = 0 THEN S
    ELSE Backward(S \cup UNION {Preds(m) : m \in S}, k - 1)

\* The direct and transitive predecessors of an added node.
Ancestors(n) == Backward(Preds(n), Cardinality(Keys))

\* No node is its own ancestor.
Acyclic == \A n \in Keys : n \notin Ancestors(n)

\* The length of the longest path ending in n that has at most k edges.
RECURSIVE PathLen(_, _)
PathLen(n, k) ==
    IF k = 0 \/ Preds(n) = {} THEN 0
    ELSE LET below == {PathLen(p, k - 1) : p \in Preds(n)}
         IN  1 + CHOOSE x \in below : \A y \in below : y <= x

\* The level of n in an acyclic graph: its longest-path distance from a source.
GraphLevel(n) == PathLen(n, Cardinality(Keys))

\* The largest level of the graph, 0 when it is empty.
GraphMaxLevel ==
    IF Keys = {} THEN 0
    ELSE CHOOSE x \in {GraphLevel(n) : n \in Keys} :
             \A n \in Keys : GraphLevel(n) <= x

\* How often x occurs in the list seq.
Count(seq, x) == Cardinality({i \in 1..Len(seq) : seq[i] = x})

\* The adjacency list of n in d, empty while n is no key.
ListOf(d, n) == IF DictHas(d, n) THEN DictGet(d, n) ELSE <<>>

\* How often node n occurs in the buckets b.
Occurrences(b, n) ==
    Cardinality(UNION {{<<i, j>> : j \in {j \in 1..Len(b[i]) : b[i][j] = n}} :
                          i \in 1..Len(b)})

---------------------------------------------------------------------------
\* C1: on an acyclic graph compute_node_levels returns a level for every
\* added node: 0 for a node whose predecessor list is empty, and otherwise
\* at least 1 + the level of each predecessor, with equality for one of
\* them (1 + the maximum of the predecessors' levels).
C1_LevelsAreLongestPath ==
    (last.op = "compute_node_levels" /\ Acyclic) =>
        /\ last.err = "none"
        /\ \A n \in Keys :
              /\ DictHas(last.val, n)
              /\ DictGet(pre_graph, n) = <<>> => DictGet(last.val, n) = 0
              /\ DictGet(pre_graph, n) # <<>> =>
                    /\ \A q \in Preds(n) :
                          DictGet(last.val, n) >= DictGet(last.val, q) + 1
                    /\ \E q \in Preds(n) :
                          DictGet(last.val, n) = DictGet(last.val, q) + 1

\* compute_node_levels has returned for a node with two predecessors of
\* different levels.
C1_Witness ==
    /\ last.op = "compute_node_levels"
    /\ last.err = "none"
    /\ \E n \in Keys : \E q1, q2 \in Preds(n) :
          DictGet(last.val, q1) < DictGet(last.val, q2)

\* C2: on an acyclic graph the buckets of get_nodes_by_level partition the
\* added nodes: each added node occurs exactly once over all the buckets
\* and nothing else occurs in a bucket.
C2_BucketsPartitionNodes ==
    (last.op = "get_nodes_by_level" /\ Acyclic) =>
        /\ last.err = "none"
        /\ \A n \in Keys : Occurrences(last.val, n) = 1
        /\ \A i \in 1..Len(last.val) : Elems(last.val[i]) \subseteq Keys

\* get_nodes_by_level has returned two buckets, one of them with two nodes.
C2_Witness ==
    /\ last.op = "get_nodes_by_level"
    /\ last.err = "none"
    /\ Len(last.val) = 2
    /\ \E i \in 1..2 : Len(last.val[i]) = 2

\* C3: under any interleaving of add_node / add_edge with the level
\* queries, a level query on an acyclic graph returns the levels of the
\* graph as it is when the query is made: compute_node_levels the level of
\* every added node, compute_max_level the largest of them,
\* get_nodes_by_level bucket i holding exactly the nodes of level i.
C3_LevelQueriesAreCurrent ==
    (last.op \in LevelQueries /\ Acyclic) =>
        /\ last.err = "none"
        /\ last.op = "compute_node_levels" =>
              /\ KeySet(last.val) = Keys
              /\ \A n \in Keys : DictGet(last.val, n) = GraphLevel(n)
        /\ last.op = "compute_max_level" => last.val = GraphMaxLevel
        /\ last.op = "get_nodes_by_level" =>
              /\ Len(last.val) = GraphMaxLevel + 1
              /\ \A i \in 1..Len(last.val) :
                    Elems(last.val[i]) = {n \in Keys : GraphLevel(n) = i - 1}

\* get_nodes_by_level has answered right after a mutation that discarded a
\* filled cache, and the graph has three levels.
C3_Witness ==
    /\ last.op = "get_nodes_by_level"
    /\ last.hist = "refill"
    /\ last.err = "none"
    /\ Len(last.val) = 3

\* C4 (as amended): add_node(n) with n already a key leaves both adjacency
\* dicts as they are (keys, their order, every predecessor and successor
\* list) and leaves both level caches absent (None).
C4_AddExistingNode ==
    [][(last'.op = "add_node" /\ DictHas(pre_graph, last'.args[1])) =>
          /\ pre_graph' = pre_graph
          /\ post_graph' = post_graph
          /\ node_levels' = None
          /\ level_nodes' = None]_vars

\* C4 as claimed: add_node(n) with n already a key changes neither the
\* adjacency dicts nor the two level caches.
C4_AsClaimed ==
    [][(last'.op = "add_node" /\ DictHas(pre_graph, last'.args[1])) =>
          /\ pre_graph' = pre_graph
          /\ post_graph' = post_graph
          /\ node_levels' = node_levels
          /\ level_nodes' = level_nodes]_vars

\* add_node was called on a node that already had predecessors, while a
\* level cache was filled.
C4_Witness ==
    /\ last.op = "add_node"
    /\ last.hist = "dropped"
    /\ DictGet(pre_graph, last.args[1]) # <<>>

\* C5: when the executor runs the buckets in order and starts a level only
\* after the levels before it have completed, every direct predecessor of
\* a started node has completed, and every predecessor of a node of the
\* plan lies in an earlier bucket.
C5_PredecessorsCompleteBeforeStart ==
    /\ \A n \in exStarted : Preds(n) \subseteq exDone
    /\ exPlan.some =>
          \A i \in 1..Len(exPlan.val) : \A n \in Elems(exPlan.val[i]) :
              \A q \in Preds(n) : \E j \in 1..(i - 1) : q \in Elems(exPlan.val[j])

\* A node of the third level with two direct predecessors is running.
C5_Witness ==
    /\ exLevel = 2
    /\ \E n \in exStarted \ exDone : Cardinality(Preds(n)) = 2

\* C6: in the buckets of an acyclic pipeline two distinct nodes of one
\* bucket are not related: neither is a direct or transitive predecessor
\* of the other.
C6_SameLevelUnrelated ==
    (last.op = "get_nodes_by_level" /\ Acyclic) =>
        /\ last.err = "none"
        /\ \A i \in 1..Len(last.val) : \A n, q \in Elems(last.val[i]) :
              n # q => n \notin Ancestors(q) /\ q \notin Ancestors(n)

\* get_nodes_by_level has put two nodes in one bucket, below a node that
\* depends on both.
C6_Witness ==
    /\ last.op = "get_nodes_by_level"
    /\ last.err = "none"
    /\ \E i \in 1..Len(last.val) :
          /\ Len(last.val[i]) = 2
          /\ \E n \in Keys : Elems(last.val[i]) \subseteq Ancestors(n)

\* C7: compute_node_levels, and get_nodes_by_level, called again with no
\* other call in between returns what the call before returned: the same
\* entries or buckets in the same order (or fails the same way).
C7_LevelQueriesIdempotent ==
    [][(last'.op \in {"compute_node_levels", "get_nodes_by_level"}
          /\ last'.hist = "again") =>
          /\ last'.err = last.err
          /\ last'.val = last.val
          /\ pre_graph' = pre_graph
          /\ post_graph' = post_graph]_vars

\* get_nodes_by_level was called twice in a row on a graph of two levels
\* or more.
C7_Witness ==
    /\ last.op = "get_nodes_by_level"
    /\ last.hist = "again"
    /\ last.err = "none"
    /\ Len(last.val) >= 2

\* C8: the predecessor dict and the successor dict have the same keys, in
\* every reachable state.
C8_SameKeys == KeySet(pre_graph) = KeySet(post_graph)

\* A query has failed on a pipeline that holds nodes.
C8_Witness ==
    /\ Len(pre_graph) >= 2
    /\ last.err # "none"

\* C9: get_pre_edges(n) on an added node returns the single edge
\* (None, n) when n's predecessor list is empty, and otherwise the edges
\* (p_i, n) of the list, in its order, and no other; get_post_edges the
\* same with (n, None) and (n, s_i).
C9_EdgesOfAdjacency ==
    /\ (last.op = "get_pre_edges" /\ DictHas(pre_graph, last.args[1])) =>
          /\ last.err = "none"
          /\ DictGet(pre_graph, last.args[1]) = <<>> =>
                last.val = <<Edge(NoneNode, last.args[1])>>
          /\ DictGet(pre_graph, last.args[1]) # <<>> =>
                /\ Len(last.val) = Len(DictGet(pre_graph, last.args[1]))
                /\ \A i \in 1..Len(last.val) :
                      last.val[i] = Edge(DictGet(pre_graph, last.args[1])[i],
                                         last.args[1])
    /\ (last.op = "get_post_edges" /\ DictHas(post_graph, last.args[1])) =>
          /\ last.err = "none"
          /\ DictGet(post_graph, last.args[1]) = <<>> =>
                last.val = <<Edge(last.args[1], NoneNode)>>
          /\ DictGet(post_graph, last.args[1]) # <<>> =>
                /\ Len(last.val) = Len(DictGet(post_graph, last.args[1]))
                /\ \A i \in 1..Len(last.val) :
                      last.val[i] = Edge(last.args[1],
                                         DictGet(post_graph, last.args[1])[i])

\* get_pre_edges has answered for a node with two entries in its
\* predecessor list.
C9_Witness ==
    /\ last.op = "get_pre_edges"
    /\ last.err = "none"
    /\ Len(DictGet(pre_graph, last.args[1])) = 2
    /\ Len(last.val) = 2

\* C10: is_terminal(n) returns False for every added node, and
\* get_post_edges(n) never returns an empty list.
C10_IsTerminalAlwaysFalse ==
    /\ (last.op = "is_terminal" /\ DictHas(post_graph, last.args[1])) =>
          last.err = "none" /\ last.val = FALSE
    /\ (last.op = "get_post_edges" /\ last.err = "none") => last.val # <<>>

\* is_terminal has answered for a node that has predecessors and no
\* successor.
C10_Witness ==
    /\ last.op = "is_terminal"
    /\ last.err = "none"
    /\ DictGet(post_graph, last.args[1]) = <<>>
    /\ DictGet(pre_graph, last.args[1]) # <<>>

\* C11: each of the six predecessor / successor queries, called with a
\* node that was never added, fails with KeyError and leaves both
\* adjacency dicts as they were (the node does not become a key).
C11_UnknownNodeRaises ==
    [][(last'.op \in NodeQueries /\ ~DictHas(pre_graph, last'.args[1])) =>
          /\ last'.err = "KeyError"
          /\ pre_graph' = pre_graph
          /\ post_graph' = post_graph
          /\ ~DictHas(pre_graph', last'.args[1])]_vars

\* get_preimage has failed for a node that is no key of a pipeline that
\* holds an edge.
C11_Witness ==
    /\ last.op = "get_preimage"
    /\ last.err = "KeyError"
    /\ ~DictHas(pre_graph, last.args[1])
    /\ NumEdges >= 1

\* C12: every call add_edge(a, b) appends a at the end of b's predecessor
\* list and b at the end of a's successor list, whatever the lists hold
\* already, so a occurs once more in the one and b once more in the other;
\* it changes no other list, and no other call changes any list.  From the
\* empty pipeline, m calls add_edge(a, b) therefore leave a exactly m times
\* in b's predecessor list and b exactly m times in a's successor list.
C12_AddEdgeAppends ==
    [][/\ last'.op = "add_edge" =>
             /\ DictGet(pre_graph', last'.args[2]) =
                   Append(ListOf(pre_graph, last'.args[2]), last'.args[1])
             /\ DictGet(post_graph', last'.args[1]) =
                   Append(ListOf(post_graph, last'.args[1]), last'.args[2])
             /\ Count(DictGet(pre_graph', last'.args[2]), last'.args[1]) =
                   Count(ListOf(pre_graph, last'.args[2]), last'.args[1]) + 1
             /\ Count(DictGet(post_graph', last'.args[1]), last'.args[2]) =
                   Count(ListOf(post_graph, last'.args[1]), last'.args[2]) + 1
             /\ \A n \in Nodes \ {last'.args[2]} :
                   ListOf(pre_graph', n) = ListOf(pre_graph, n)
             /\ \A n \in Nodes \ {last'.args[1]} :
                   ListOf(post_graph', n) = ListOf(post_graph, n)
       /\ last'.op # "add_edge" =>
             /\ SubSeq(pre_graph', 1, Len(pre_graph)) = pre_graph
             /\ SubSeq(post_graph', 1, Len(post_graph)) = post_graph
             /\ \A i \in (Len(pre_graph) + 1)..Len(pre_graph') :
                   pre_graph'[i].v = <<>> /\ post_graph'[i].v = <<>>]_vars

\* add_edge was called for a pair that was an edge already: the
\* predecessor occurs twice.
C12_Witness ==
    /\ last.op = "add_edge"
    /\ Count(DictGet(pre_graph, last.args[2]), last.args[1]) = 2
    /\ Count(DictGet(post_graph, last.args[1]), last.args[2]) = 2

C14_BadCapabilityRejected ==
    (last.op \in {"EstimatorNode", "AndNode"}
        /\ ~Satisfies(last.args[2], last.op)) => last.err # "none"

\* The nodes of seq that levels puts on level l, in the order of seq.
OnLevel(seq, levels, l) ==
    SelectSeq(seq, LAMBDA n : DictGet(levels, n) = l)

\* The nodes were added in a topological order: every predecessor of a
\* node became a key before the node did.
KeysTopological ==
    \A i, j \in 1..Len(pre_graph) :
        pre_graph[j].k \in Preds(pre_graph[i].k) => j < i

\* C15 (as amended): within each bucket returned by get_nodes_by_level the
\* nodes appear in the order of the levels mapping of compute_node_levels
\* (a node enters that mapping after all its predecessors, which are
\* visited first); this is the order in which the nodes were added to the
\* pipeline when every node was added after its predecessors.
C15_BucketOrder ==
    (last.op = "get_nodes_by_level" /\ last.err = "none") =>
        /\ node_levels.some
        /\ \A i \in 1..Len(last.val) :
              last.val[i] =
                  OnLevel(DictKeys(node_levels.val), node_levels.val, i - 1)
        /\ KeysTopological =>
              \A i \in 1..Len(last.val) :
                  last.val[i] =
                      OnLevel(DictKeys(pre_graph), node_levels.val, i - 1)

\* C15 as claimed: within each bucket the nodes appear in the order in
\* which they were added to the pipeline.
C15_AsClaimed ==
    (last.op = "get_nodes_by_level" /\ last.err = "none") =>
        \A i \in 1..Len(last.val) :
            last.val[i] = OnLevel(DictKeys(pre_graph), node_levels.val, i - 1)

\* get_nodes_by_level has returned a bucket of two nodes for a pipeline
\* whose nodes were added predecessors first, and two or more buckets.
C15_Witness ==
    /\ last.op = "get_nodes_by_level"
    /\ last.err = "none"
    /\ KeysTopological
    /\ Len(last.val) >= 2
    /\ \E i \in 1..Len(last.val) : Len(last.val[i]) = 2

\* C16: compute_node_levels returns on every acyclic pipeline, and on
\* every pipeline with a cycle (a self-loop of add_edge(n, n) included) its
\* recursion never reaches an end: no result is returned, nothing detects
\* the cycle, and the cache stays absent.
C16_TerminatesIffAcyclic ==
    last.op = "compute_node_levels" =>
        /\ Acyclic => last.err = "none"
        /\ ~Acyclic => (last.err = "diverges" /\ ~node_levels.some)

\* compute_node_levels was called on a pipeline of two nodes or more whose
\* only edges are self-loops.
C16_Witness ==
    /\ last.op = "compute_node_levels"
    /\ last.err = "diverges"
    /\ Len(pre_graph) >= 2
    /\ \E n \in Keys : n \in Preds(n)
    /\ \A n \in Keys : Preds(n) \subseteq {n}

\* C18: in every reachable state the two adjacency dicts mirror each other
\* and are closed over the keys: every node in a predecessor or successor
\* list is a key, and p occurs in the predecessor list of n as often as n
\* occurs in the successor list of p.
C18_AdjacencyMirrored ==
    /\ \A i \in 1..Len(pre_graph) : Elems(pre_graph[i].v) \subseteq Keys
    /\ \A i \in 1..Len(post_graph) : Elems(post_graph[i].v) \subseteq Keys
    /\ \A p, n \in Nodes :
          Count(ListOf(pre_graph, n), p) = Count(ListOf(post_graph, p), n)

\* The pipeline holds a doubled edge between two nodes and a self-loop.
C18_Witness ==
    /\ \E p, n \in Keys : p # n /\ Count(DictGet(pre_graph, n), p) = 2
    /\ \E n \in Keys : n \in Preds(n)

\* C19: get_nodes_by_level returns compute_max_level() + 1 buckets; for a
\* non-empty acyclic pipeline none of them is empty, and for the empty
\* pipeline the result is one empty bucket.
C19_BucketCount ==
    (last.op = "get_nodes_by_level" /\ last.err = "none") =>
        /\ compute_max_level(Self).err = "none"
        /\ Len(last.val) = compute_max_level(Self).val + 1
        /\ Keys # {} => \A i \in 1..Len(last.val) : last.val[i] # <<>>
        /\ Keys = {} => last.val = << <<>> >>

\* get_nodes_by_level has returned three buckets, for a chain of three
\* nodes.
C19_Witness ==
    /\ last.op = "get_nodes_by_level"
    /\ last.err = "none"
    /\ Len(last.val) = 3
    /\ compute_max_level(Self).val = 2

\* C17: once construction is over and get_nodes_by_level has been called,
\* no query of a worker (get_nodes_by_level, compute_node_levels,
\* compute_max_level, get_pre_nodes, get_post_nodes, get_pre_edges,
\* get_post_edges, is_terminal) assigns an adjacency dict or a level cache,
\* and the four attributes keep their values.
C17_QueriesWriteNothing ==
    [][exPlan.some =>
          /\ pipeVars' = pipeVars
          /\ CacheWrites(last'.op, Self) = {}]_vars

============================================================================
